---- MODULE Spec2Model ----
(***************************************************************************)
(* Krakipy (src/src/krakipy/krakipy.py): the call-rate governor            *)
(* (callratelimiter.retry_decorator), the decaying API counter             *)
(* (KrakenAPI._update_api_counter) and the request path                    *)
(* (_query_public / _query_private / _query / _check_error).               *)
(*                                                                         *)
(* Time is counted in ticks, TicksPerSecond ticks to the second, so that   *)
(* int(now - time_of_last_query) truncates as in the code.  A client is    *)
(* built with the default transport (use_tor = False, so lines 42-44 of    *)
(* the decorator do nothing).  A thread is one caller; its pc is the       *)
(* position inside the method it has called.                               *)
(***************************************************************************)
EXTENDS Integers, Sequences, FiniteSets, TLC

\* ------------------------------------------------------------- bounds
TicksPerSecond == 2
MaxTime == 6
MaxLimit == 3
MaxRetry == 1
ExtraRequests == 1
MaxBack == 1

\* ---------------------------------------------------- program constants
\* limit=20 in KrakenAPI.__init__'s signature
DefaultLimit == 20

VARIABLES
    now,                 \* time(): the wall clock, in ticks
    back,                \* how many times the wall clock has been set back
    api_counter,         \* self.api_counter, per client
    time_of_last_query,  \* self.time_of_last_query, per client, in ticks
    counter,             \* self.counter, per client
    burst,               \* per client: the governed calls served back to back
                         \* since construction (how many, their declared cost)
    quiet,               \* per recorded client: api_counter and time_of_last_query
                         \* as the last charge (or the constructor) left them
    issued,              \* per recorded client: the nonce of its last private
                         \* request, -1 before the first
    session,             \* self.session.session, per client: the Session of its
                         \* Dark_Session, or None
    limit,               \* self.limit, per client
    retry,               \* self.retry, per client, in ticks
    key,                 \* self._key, per client
    secret,              \* self._secret, per client
    authentification,    \* self._authentification, per client: its method
    pc,                  \* per thread: position in the called method
    obj,                 \* per thread: the client the method was called on
    method,              \* per thread: the method called
    try_number,          \* per thread: retry_decorator's try_number
    steps,               \* per thread: governor steps of the current attempt
    seen,                \* per thread: api_counter as read by the last `while`
    sends,               \* per thread: session.post calls of this invocation
    sleeps,              \* per thread: sleep calls of this invocation
    slept,               \* per thread: ticks slept in this invocation
    charged,             \* per thread: what this invocation has added to api_counter
    request,             \* per thread: the request built for session.post
    outcome              \* per thread: how the invocation ended

configVars == <<limit, retry, key, secret, authentification>>
clientVars == <<api_counter, time_of_last_query, counter, burst, quiet, issued, session,
                configVars>>
frameVars == <<pc, obj, method, try_number, steps, seen, sends, sleeps, slept, charged,
               request, outcome>>
vars == <<now, back, clientVars, frameVars>>

Clients == DOMAIN api_counter
Threads == DOMAIN pc

\* ------------------------------------------------------------ helpers
Max(a, b) == IF a >= b THEN a ELSE b

\* int(x) of a float x = ticks / TicksPerSecond: truncation toward zero
IntSeconds(ticks) ==
    IF ticks >= 0 THEN ticks \div TicksPerSecond
    ELSE -((-ticks) \div TicksPerSecond)

\* ------------------------------------------------------- method table
\* name |-> <<decorated with callratelimiter, increment, private>>
MethodTable ==
    [get_server_time        |-> <<TRUE, 1, FALSE>>,
     get_ohlc_data          |-> <<TRUE, 2, FALSE>>,
     get_account_balance    |-> <<TRUE, 1, TRUE>>,
     retrieve_export_report |-> <<TRUE, 3, TRUE>>,
     request_export_report  |-> <<FALSE, 0, TRUE>>,
     add_standard_order     |-> <<FALSE, 0, TRUE>>,
     edit_order             |-> <<FALSE, 0, TRUE>>,
     cancel_order           |-> <<FALSE, 0, TRUE>>,
     cancel_all_orders      |-> <<FALSE, 0, TRUE>>,
     cancel_all_orders_after |-> <<FALSE, 0, TRUE>>,
     cancel_order_batch     |-> <<FALSE, 0, TRUE>>,
     withdraw_funds         |-> <<FALSE, 0, TRUE>>]

Methods == DOMAIN MethodTable

\* Governed with get_account_balance left undecorated
GovernedButBalance(m) == MethodTable[m][1] /\ m # "get_account_balance"

\* Governed with add_standard_order decorated as well
GovernedAlsoOrders(m) == MethodTable[m][1] \/ m = "add_standard_order"

Governed(m) == MethodTable[m][1]
Increment(m) == MethodTable[m][2]
Private(m) == MethodTable[m][3]

GovernedMethods == {m \in Methods : Governed(m)}

NoOutcome == [type |-> "none"]

\* the value of burst once time has passed or a governed call has failed
NoBurst == [calls |-> -1, cost |-> -1]

\* burst after one more governed call was served
Served(b, m) ==
    IF b = NoBurst THEN NoBurst
    ELSE [calls |-> b.calls + 1, cost |-> b.cost + MethodTable[m][2]]

\* ---------------------------------------------------------- transport
\* What session.post can do: raise a transport-level error (connection
\* failure, timeout: requests.ConnectionError / Timeout, which are not
\* HTTPError), or return a response with a status code and a body.
Statuses == {200, 201, 202, 204, 503}
Bodies == {"json", "json_error", "bytes"}
ErrorList == <<"EOrder:Invalid price">>
TransportError == [kind |-> "error"]
Responses == [kind : {"response"}, status_code : Statuses, content : Bodies]
Replies == {TransportError} \cup Responses
OkReply == [kind |-> "response", status_code |-> 200, content |-> "json"]
UnavailableReply == [kind |-> "response", status_code |-> 503, content |-> "bytes"]

\* the statuses _query accepts without calling raise_for_status
AcceptedStatus(status) == status \in {200, 201, 202}

\* requests.Response.raise_for_status raises HTTPError for 4xx and 5xx only
RaiseForStatus(status) == 400 <= status /\ status < 600

\* ParseBody without the fallback: a body that is not JSON counts as an
\* exchange error
ParseBodyStrict(content) ==
    CASE content = "json" -> [result |-> "parsed", error |-> <<>>]
      [] OTHER            -> [result |-> "parsed", error |-> ErrorList]

\* response.json(), or the fallback envelope of the bare except
ParseBody(content) ==
    CASE content = "json"       -> [result |-> "parsed", error |-> <<>>]
      [] content = "json_error" -> [result |-> "parsed", error |-> ErrorList]
      [] OTHER                  -> [result |-> "content", error |-> <<>>]

\* _check_error, then the method's return of the result
CheckError(res, status) ==
    IF Len(res.error) > 0
    THEN [type |-> "KrakenAPIError", error |-> res.error]
    ELSE [type |-> "result", result |-> res.result, status_code |-> status]

\* _query from the return of session.post on, then _check_error
QueryOutcome(reply) ==
    IF reply.kind = "error" THEN [type |-> "ConnectionError"]
    ELSE IF ~AcceptedStatus(reply.status_code) /\ RaiseForStatus(reply.status_code)
    THEN [type |-> "HTTPError", status_code |-> reply.status_code]
    ELSE CheckError(ParseBody(reply.content), reply.status_code)

\* Caught as by `except Exception`: exchange errors are retried too
CaughtAll(out) == out.type \in {"HTTPError", "KrakenAPIError"}

\* the exceptions retry_decorator's except clause catches
Caught(out) == out.type = "HTTPError"

\* ----------------------------------------------------------- governor
\* Admits with the ceiling off by one (admits at limit - 1)
AdmitsBelowLimit(c) == api_counter[c] < limit[c]

\* the loop condition of retry_decorator
Admits(c) == api_counter[c] < limit[c] - 1

\* Decayed without the floor at zero
DecayedUnfloored(c) == api_counter[c] - IntSeconds(now - time_of_last_query[c])

\* Decayed taking one unit off at every run, besides the elapsed seconds
DecayedPerRun(c) == Max(0, api_counter[c] - 1 - IntSeconds(now - time_of_last_query[c]))

\* _update_api_counter's new value of api_counter
Decayed(c) == Max(0, api_counter[c] - IntSeconds(now - time_of_last_query[c]))

\* Charged with every call charged 1, whatever its declared cost
ChargedOne(c, m) == api_counter[c] + 1

\* self.api_counter += increment
Charged(c, m) == api_counter[c] + Increment(m)

\* the CallRateLimitError raised after the loop
RateLimitError(c) ==
    [type |-> "CallRateLimitError", counter |-> api_counter[c], limit |-> limit[c]]

\* no request has been built, or the one built has been sent
NoRequest == [data |-> {}, headers |-> {}, urlpath |-> <<>>]

\* _nonce at the resolution of a second: 1000*int(time())
NonceSeconds == 1000 * (now \div TicksPerSecond)

\* _nonce: int(1000*time())
Nonce == (1000 * now) \div TicksPerSecond

\* self._authentification["method"](): _auth_static_password gives the
\* password, _auth_2fa_app the token TOTP makes of it
Otp(c) ==
    IF authentification[c] = "static password" THEN "password_2fa"
    ELSE "TOTP(password_2fa).now()"

\* b64decode(self._secret) in _sign, for the secrets of the model: it skips
\* the characters outside the base64 alphabet and raises binascii.Error
\* when what is left is not padded to whole groups of four (the empty
\* secret decodes to no bytes)
B64Decode ==
    ("" :> "") @@ ("c2VjcmV0" :> "secret") @@ ("c2Vj cmV0!" :> "secret")
        @@ ("c2VjcmV" :> "binascii.Error")

\* _sign where b64decode never raises
SignNeverRaises(c) == FALSE

\* _sign raises before it has a signature
SignRaises(c) == B64Decode[secret[c]] = "binascii.Error"

\* _sign: the HMAC-SHA512, under the decoded secret, of the urlpath and the
\* SHA256 of the nonce and the urlencoded data; kept as the pair of its inputs
Sign(c, data, urlpath) == [secret |-> B64Decode[secret[c]], message |-> <<urlpath, data>>]

\* _query_private's data without the otp field
PrivateDataNoOtp(c) == {<<"nonce", Nonce>>}

\* _query_private's data: the nonce and, for a client with a 2FA method,
\* the otp (the method's own parameters are left out)
PrivateData(c) ==
    {<<"nonce", Nonce>>}
        \cup (IF authentification[c] # "None" THEN {<<"otp", Otp(c)>>} ELSE {})

\* what _query_private hands to _query
PrivateRequest(c, m) ==
    LET urlpath == <<"private", m>> IN
    [data |-> PrivateData(c),
     headers |-> {<<"API-Key", key[c]>>,
                  <<"API-Sign", Sign(c, PrivateData(c), urlpath)>>},
     urlpath |-> urlpath]

\* what _query_public hands to _query (headers=None becomes {})
PublicRequest(m) == [data |-> {}, headers |-> {}, urlpath |-> <<"public", m>>]

\* KeysSet with `and` for `or`: one of the two keys is enough
KeysSetEither(c) == key[c] # "" \/ secret[c] # ""

\* _query_private's check of the credentials
KeysSet(c) == key[c] # "" /\ secret[c] # ""

\* a bound of the model on self.counter
RequestCap(c) == limit[c] + ExtraRequests

\* ---------------------------------------------------------------- Init
\* (key, secret_key) as given to the constructor: the default (none), a
\* key without its secret, and both
KeyPairs == {<<"", "">>, <<"key", "">>, <<"key", "c2VjcmV0">>}

FreshFrame(T) ==
    /\ pc = [t \in T |-> "idle"]
    /\ obj = [t \in T |-> 0]
    /\ method = [t \in T |-> "none"]
    /\ try_number = [t \in T |-> 0]
    /\ steps = [t \in T |-> <<>>]
    /\ seen = [t \in T |-> -1]
    /\ sends = [t \in T |-> 0]
    /\ sleeps = [t \in T |-> 0]
    /\ slept = [t \in T |-> 0]
    /\ charged = [t \in T |-> 0]
    /\ request = [t \in T |-> NoRequest]
    /\ outcome = [t \in T |-> NoOutcome]

\* KrakenAPI.__init__ for every client of C, at time 0
ConstructWith(C, limits, retries, pairs, methods) ==
    /\ now = 0
    /\ back = 0
    /\ time_of_last_query = [c \in C |-> 0]
    /\ api_counter = [c \in C |-> 0]
    /\ counter = [c \in C |-> 0]
    /\ session = [c \in C |-> "Session"]
    /\ burst = [c \in C |-> [calls |-> 0, cost |-> 0]]
    /\ limit \in [C -> limits]
    /\ retry \in [C -> retries]
    /\ \E k \in [C -> pairs] :
          /\ key = [c \in C |-> k[c][1]]
          /\ secret = [c \in C |-> k[c][2]]
    /\ authentification \in [C -> methods]

\* KrakenAPI.__init__ with use_2fa left at its default
Construct(C, limits, retries) == ConstructWith(C, limits, retries, KeyPairs, {"None"})

\* the history kept for the clients of R, none of it being state of the
\* program: as the constructor leaves a client, nothing is charged yet
Recorded(R) ==
    /\ quiet = [c \in R |-> [counter |-> 0, since |-> 0]]
    /\ issued = [c \in R |-> -1]

Init ==
    /\ Construct({1}, 2..MaxLimit, 1..MaxRetry)
    /\ FreshFrame({1})
    /\ Recorded({})

\* ------------------------------------------------------------- session
\* Dark_Session.close sets self.session = None; the KrakenAPI keeps its
\* Dark_Session, which is never None
Closed(c) == session[c] = "None"

\* Dark_Session.post on a closed session: None has no attribute post
PostOnClosed == [type |-> "AttributeError"]

\* Dark_Session.close: self.session.close() on None raises AttributeError
DarkSessionClose(c) ==
    IF Closed(c) THEN [type |-> "AttributeError"] ELSE [type |-> "returned"]

\* the methods that release the session: both call self.session.close()
\* behind the guard `self.session is not None`, which is always true
CloseMethods == {"close", "__exit__"}

\* ------------------------------------------------------------- actions
\* a caller invokes method m of client c
Call(t, c, m) ==
    /\ pc[t] = "idle"
    /\ pc' = [pc EXCEPT ![t] = IF Governed(m) THEN "update" ELSE "func"]
    /\ obj' = [obj EXCEPT ![t] = c]
    /\ method' = [method EXCEPT ![t] = m]
    /\ try_number' = [try_number EXCEPT ![t] = IF Governed(m) THEN 1 ELSE 0]
    /\ UNCHANGED <<now, back, clientVars, steps, seen, sends, sleeps, slept, charged, request,
                   outcome>>

\* self._update_api_counter(), at entry and after each sleep
UpdateApiCounter(t) ==
    /\ pc[t] \in {"update", "reupdate"}
    /\ api_counter' = [api_counter EXCEPT ![obj[t]] = Decayed(obj[t])]
    /\ time_of_last_query' = [time_of_last_query EXCEPT ![obj[t]] = now]
    /\ steps' = [steps EXCEPT ![t] = <<"decay">>]
    /\ pc' = [pc EXCEPT ![t] = "while"]
    /\ UNCHANGED <<now, back, counter, burst, quiet, issued, session, configVars,
                   obj, method, try_number, seen, sends, sleeps, slept, charged, request,
                   outcome>>

\* While that waits for the counter to decay instead of raising
WhileBlocks(t) ==
    /\ pc[t] = "while"
    /\ seen' = [seen EXCEPT ![t] = api_counter[obj[t]]]
    /\ IF api_counter[obj[t]] < limit[obj[t]] - 1
       THEN /\ pc' = [pc EXCEPT ![t] = "charge"]
            /\ steps' = [steps EXCEPT ![t] = Append(@, "check")]
            /\ UNCHANGED <<sleeps, now>>
       ELSE /\ now < MaxTime
            /\ now' = now + 1
            /\ sleeps' = [sleeps EXCEPT ![t] = @ + 1]
            /\ pc' = [pc EXCEPT ![t] = "reupdate"]
            /\ UNCHANGED steps
    /\ UNCHANGED <<back, clientVars, obj, method, try_number, sends, slept, charged, request,
                   outcome>>

\* while self.api_counter < self.limit-1: ... raise CallRateLimitError
While(t) ==
    /\ pc[t] = "while"
    /\ seen' = [seen EXCEPT ![t] = api_counter[obj[t]]]
    /\ IF Admits(obj[t])
       THEN /\ pc' = [pc EXCEPT ![t] = "charge"]
            /\ steps' = [steps EXCEPT ![t] = Append(@, "check")]
            /\ UNCHANGED outcome
       ELSE /\ pc' = [pc EXCEPT ![t] = "done"]
            /\ outcome' = [outcome EXCEPT ![t] = RateLimitError(obj[t])]
            /\ UNCHANGED steps
    /\ UNCHANGED <<now, back, clientVars, obj, method, try_number, sends, sleeps, slept,
                   charged, request>>

\* Charge on a counter that all the clients of the process share
ChargeShared(t) ==
    /\ pc[t] = "charge"
    /\ api_counter' = [c \in Clients |-> api_counter[c] + Increment(method[t])]
    /\ quiet' = [c \in DOMAIN quiet |->
                    IF c = obj[t]
                    THEN [counter |-> Charged(c, method[t]),
                          since |-> time_of_last_query[c]]
                    ELSE quiet[c]]
    /\ charged' = [charged EXCEPT ![t] = @ + Increment(method[t])]
    /\ steps' = [steps EXCEPT ![t] = Append(@, "charge")]
    /\ pc' = [pc EXCEPT ![t] = "func"]
    /\ UNCHANGED <<now, back, time_of_last_query, counter, burst, issued, session, configVars,
                   obj, method, try_number, seen, sends, sleeps, slept, request,
                   outcome>>

\* Charge that skips the calls _query_private is going to refuse for their
\* missing keys
ChargeIfKeys(t) ==
    /\ pc[t] = "charge"
    /\ IF Private(method[t]) /\ ~KeysSet(obj[t])
       THEN UNCHANGED <<api_counter, quiet, charged>>
       ELSE /\ api_counter' = [api_counter EXCEPT ![obj[t]] = Charged(obj[t], method[t])]
            /\ quiet' = [c \in DOMAIN quiet |->
                            IF c = obj[t]
                            THEN [counter |-> Charged(c, method[t]),
                                  since |-> time_of_last_query[c]]
                            ELSE quiet[c]]
            /\ charged' = [charged EXCEPT ![t] = @ + Increment(method[t])]
    /\ steps' = [steps EXCEPT ![t] = Append(@, "charge")]
    /\ pc' = [pc EXCEPT ![t] = "func"]
    /\ UNCHANGED <<now, back, time_of_last_query, counter, burst, issued, session, configVars,
                   obj, method, try_number, seen, sends, sleeps, slept, request,
                   outcome>>

\* self.api_counter += increment
Charge(t) ==
    /\ pc[t] = "charge"
    /\ api_counter' = [api_counter EXCEPT ![obj[t]] = Charged(obj[t], method[t])]
    /\ quiet' = [c \in DOMAIN quiet |->
                    IF c = obj[t]
                    THEN [counter |-> Charged(c, method[t]),
                          since |-> time_of_last_query[c]]
                    ELSE quiet[c]]
    /\ charged' = [charged EXCEPT ![t] = @ + Charged(obj[t], method[t]) - api_counter[obj[t]]]
    /\ steps' = [steps EXCEPT ![t] = Append(@, "charge")]
    /\ pc' = [pc EXCEPT ![t] = "func"]
    /\ UNCHANGED <<now, back, time_of_last_query, counter, burst, issued, session, configVars,
                   obj, method, try_number, seen, sends, sleeps, slept, request,
                   outcome>>

\* func(*args): the method body down to _query_public / _query_private,
\* up to the call of _query
Func(t) ==
    /\ pc[t] = "func"
    /\ LET c == obj[t]
           m == method[t]
           fails(type) ==
               /\ pc' = [pc EXCEPT ![t] = "done"]
               /\ outcome' = [outcome EXCEPT ![t] = [type |-> type]]
               /\ burst' = [burst EXCEPT ![c] = IF Governed(m) THEN NoBurst ELSE @]
               /\ UNCHANGED <<request, issued>>
           posts(r) ==
               /\ pc' = [pc EXCEPT ![t] = "post"]
               /\ request' = [request EXCEPT ![t] = r]
               /\ UNCHANGED <<outcome, burst>>
       IN  IF ~Private(m)
           THEN posts(PublicRequest(m)) /\ UNCHANGED issued
           ELSE IF ~KeysSet(c) THEN fails("KeyNotSetError")
           ELSE IF SignRaises(c) THEN fails("binascii.Error")
           ELSE /\ posts(PrivateRequest(c, m))
                /\ issued' = [d \in DOMAIN issued |->
                                 IF d = c THEN Nonce ELSE issued[d]]
    /\ UNCHANGED <<now, back, api_counter, time_of_last_query, counter, quiet, session, configVars,
                   obj, method, try_number, steps, seen, sends, sleeps, slept,
                   charged>>

\* _query: session.post answers with reply; then the status check, the
\* parse, _check_error, and the decorator's return or except
Query(t, reply) ==
    /\ pc[t] = "post"
    /\ counter[obj[t]] < RequestCap(obj[t])
    /\ sends' = [sends EXCEPT ![t] = IF Closed(obj[t]) THEN @ ELSE @ + 1]
    /\ steps' = [steps EXCEPT ![t] = IF Closed(obj[t]) THEN @ ELSE Append(@, "send")]
    /\ request' = [request EXCEPT ![t] = NoRequest]
    /\ counter' = [counter EXCEPT ![obj[t]] =
                       IF ~Closed(obj[t]) /\ reply.kind = "response" THEN @ + 1 ELSE @]
    /\ LET out == IF Closed(obj[t]) THEN PostOnClosed ELSE QueryOutcome(reply) IN
       /\ IF Governed(method[t]) /\ Caught(out)
          THEN /\ pc' = [pc EXCEPT ![t] = "except"]
               /\ UNCHANGED outcome
          ELSE /\ pc' = [pc EXCEPT ![t] = "done"]
               /\ outcome' = [outcome EXCEPT ![t] = out]
       /\ burst' = [burst EXCEPT ![obj[t]] =
                       IF ~Governed(method[t]) THEN @
                       ELSE IF out.type = "result" THEN Served(@, method[t])
                       ELSE NoBurst]
    /\ UNCHANGED <<now, back, api_counter, time_of_last_query, quiet, issued, session, configVars,
                   obj, method, try_number, seen, sleeps, slept, charged>>

\* Except that takes the failed attempt's charge back
ExceptRefunds(t) ==
    /\ pc[t] = "except"
    /\ now + retry[obj[t]] * Increment(method[t]) <= MaxTime
    /\ try_number' = [try_number EXCEPT ![t] = @ + 1]
    /\ now' = now + retry[obj[t]] * Increment(method[t])
    /\ sleeps' = [sleeps EXCEPT ![t] = @ + 1]
    /\ slept' = [slept EXCEPT ![t] = @ + retry[obj[t]] * Increment(method[t])]
    /\ api_counter' = [api_counter EXCEPT ![obj[t]] = @ - Increment(method[t])]
    /\ pc' = [pc EXCEPT ![t] = "reupdate"]
    /\ burst' = [c \in Clients |-> NoBurst]
    /\ UNCHANGED <<back, time_of_last_query, counter, quiet, issued, session, configVars,
                   obj, method, steps, seen, sends, charged, request,
                   outcome>>

\* except HTTPError: try_number += 1; sleep(self.retry * increment)
Except(t) ==
    /\ pc[t] = "except"
    /\ now + retry[obj[t]] * Increment(method[t]) <= MaxTime
    /\ try_number' = [try_number EXCEPT ![t] = @ + 1]
    /\ now' = now + retry[obj[t]] * Increment(method[t])
    /\ sleeps' = [sleeps EXCEPT ![t] = @ + 1]
    /\ slept' = [slept EXCEPT ![t] = @ + retry[obj[t]] * Increment(method[t])]
    /\ pc' = [pc EXCEPT ![t] = "reupdate"]
    /\ burst' = [c \in Clients |-> NoBurst]
    /\ UNCHANGED <<back, api_counter, time_of_last_query, counter, quiet, issued, session, configVars,
                   obj, method, steps, seen, sends, charged, request,
                   outcome>>

\* KrakenAPI.close / __exit__, as one step of an idle thread
Close(t, c, m) ==
    /\ pc[t] = "idle"
    /\ m \in CloseMethods
    /\ pc' = [pc EXCEPT ![t] = "done"]
    /\ obj' = [obj EXCEPT ![t] = c]
    /\ method' = [method EXCEPT ![t] = m]
    /\ outcome' = [outcome EXCEPT ![t] = DarkSessionClose(c)]
    /\ session' = [session EXCEPT ![c] = "None"]
    /\ UNCHANGED <<now, back, api_counter, time_of_last_query, counter, burst, quiet, issued,
                   configVars, try_number, steps, seen, sends, sleeps, slept, charged, request>>

\* the caller has the result or the exception; the frame is gone
Return(t) ==
    /\ pc[t] = "done"
    /\ pc' = [pc EXCEPT ![t] = "idle"]
    /\ obj' = [obj EXCEPT ![t] = 0]
    /\ method' = [method EXCEPT ![t] = "none"]
    /\ try_number' = [try_number EXCEPT ![t] = 0]
    /\ steps' = [steps EXCEPT ![t] = <<>>]
    /\ seen' = [seen EXCEPT ![t] = -1]
    /\ sends' = [sends EXCEPT ![t] = 0]
    /\ sleeps' = [sleeps EXCEPT ![t] = 0]
    /\ slept' = [slept EXCEPT ![t] = 0]
    /\ charged' = [charged EXCEPT ![t] = 0]
    /\ request' = [request EXCEPT ![t] = NoRequest]
    /\ outcome' = [outcome EXCEPT ![t] = NoOutcome]
    /\ UNCHANGED <<now, back, clientVars>>

\* wall time passes, between calls and while the transport works (the
\* governor's own statements take no time)
Tick ==
    /\ \E t \in Threads : pc[t] \in {"idle", "post"}
    /\ now < MaxTime
    /\ now' = now + 1
    /\ burst' = [c \in Clients |-> NoBurst]
    /\ UNCHANGED <<back, api_counter, time_of_last_query, counter, quiet, issued, session, configVars,
                   frameVars>>

\* the wall clock is set back by up to one second
ClockBack(k) ==
    /\ \E t \in Threads : pc[t] \in {"idle", "post"}
    /\ back < MaxBack
    /\ now - k >= 0
    /\ now' = now - k
    /\ back' = back + 1
    /\ burst' = [c \in Clients |-> NoBurst]
    /\ UNCHANGED <<api_counter, time_of_last_query, counter, quiet, issued, session, configVars, frameVars>>

\* the steps of the callers, for the methods and the transport replies given
Run(methods, replies) ==
    \/ \E t \in Threads, c \in Clients, m \in methods : Call(t, c, m)
    \/ \E t \in Threads : UpdateApiCounter(t)
    \/ \E t \in Threads : While(t)
    \/ \E t \in Threads : Charge(t)
    \/ \E t \in Threads : Func(t)
    \/ \E t \in Threads, reply \in replies : Query(t, reply)
    \/ \E t \in Threads : Return(t)

Next ==
    \/ Run(Methods, Replies)
    \/ \E t \in Threads : Except(t)
    \/ Tick

\* the program under a wall clock that only moves forward
Spec == Init /\ [][Next]_vars

\* the program under a wall clock that may also be set back
NextClock ==
    \/ Next
    \/ \E k \in 1..TicksPerSecond : ClockBack(k)

SpecClock == Init /\ [][NextClock]_vars

\* the program under a forward clock, with the history of client 1 recorded
InitRecorded ==
    /\ Construct({1}, 2..MaxLimit, 1..MaxRetry)
    /\ FreshFrame({1})
    /\ Recorded({1})

SpecRecorded == InitRecorded /\ [][Next]_vars

\* two clients in one process, used in turn by one caller
InitTwo ==
    /\ Construct({1, 2}, {2}, {MaxRetry})
    /\ FreshFrame({1})
    /\ Recorded({})

\* calls of a public and a private governed method and of an undecorated
\* one, answered with success or with HTTP 503
NextTwo ==
    \/ Run({"get_ohlc_data", "get_account_balance", "add_standard_order"},
           {OkReply, UnavailableReply})
    \/ \E t \in Threads : Except(t)
    \/ Tick

SpecTwo == InitTwo /\ [][NextTwo]_vars

\* (key, secret_key) with secrets that base64 does not decode as written:
\* one that lacks its padding, one with characters outside the alphabet
PrivateKeyPairs == KeyPairs \cup {<<"key", "c2VjcmV">>, <<"key", "c2Vj cmV0!">>}

\* use_2fa: None, {"static password": ...}, {"2FA App": ...}
AuthMethods == {"None", "static password", "2FA App"}

\* a client with any of the credentials and 2FA methods, its history
\* recorded, called on a public and a private governed method and on an
\* undecorated one
InitPrivate ==
    /\ ConstructWith({1}, {MaxLimit}, 1..MaxRetry, PrivateKeyPairs, AuthMethods)
    /\ FreshFrame({1})
    /\ Recorded({1})

NextPrivate ==
    \/ Run({"get_server_time", "get_account_balance", "add_standard_order"},
           {OkReply, UnavailableReply, TransportError})
    \/ \E t \in Threads : Except(t)
    \/ Tick

SpecPrivate == InitPrivate /\ [][NextPrivate]_vars

\* one client (limit 2) shared by two threads that call get_server_time
\* against a transport that always succeeds
InitThreads ==
    /\ Construct({1}, {2}, {MaxRetry})
    /\ FreshFrame({1, 2})
    /\ Recorded({})

NextThreads ==
    \/ Run({"get_server_time"}, {OkReply})
    \/ Tick

SpecThreads == InitThreads /\ [][NextThreads]_vars

\* one client that is used and closed, in any order and any number of
\* times, against a transport that always succeeds
InitClose ==
    /\ Construct({1}, {2}, {MaxRetry})
    /\ FreshFrame({1})
    /\ Recorded({})

NextClose ==
    \/ Run({"get_server_time"}, {OkReply})
    \/ \E t \in Threads, c \in Clients, m \in CloseMethods : Close(t, c, m)
    \/ Tick

SpecClose == InitClose /\ [][NextClose]_vars

\* a fresh client with the default limit, governed calls issued back to
\* back on a frozen clock against a transport that always succeeds
InitBurst ==
    /\ Construct({1}, {DefaultLimit}, 1..MaxRetry)
    /\ FreshFrame({1})
    /\ Recorded({})

NextBurst == Run(GovernedMethods, {OkReply})

SpecBurst == InitBurst /\ [][NextBurst]_vars

\* ------------------------------------------------------------- claims
\* the calls in progress on a rate-governed method
InGoverned(t) == method[t] \in Methods /\ MethodTable[method[t]][1]

\* the transport has been, or is about to be, invoked for the current attempt
AtSend(t) == pc[t] = "post" \/ (Len(steps[t]) > 0 /\ steps[t][Len(steps[t])] = "send")

\* the governor's steps of the current attempt that came before its send
BeforeSend(t) == IF Len(steps[t]) >= 3 THEN SubSeq(steps[t], 1, 3) ELSE steps[t]

\* C1: in a rate-governed call the transport is invoked, at the first
\* attempt and at every retry, only if the admission check of that attempt
\* read api_counter < limit - 1, after the attempt's decay and before its
\* charge.
C1_SendOnlyWhenAdmitted ==
    \A t \in Threads :
        InGoverned(t) =>
            /\ pc[t] = "charge" =>
                   /\ steps[t] = <<"decay", "check">>
                   /\ api_counter[obj[t]] = seen[t]
                   /\ api_counter[obj[t]] < limit[obj[t]] - 1
            /\ AtSend(t) =>
                   /\ BeforeSend(t) = <<"decay", "check", "charge">>
                   /\ seen[t] < limit[obj[t]] - 1

\* C1 witness: a retry of a governed call reaches the transport after an
\* admission check passed at the last admissible value, limit - 2
C1_Witness ==
    \E t \in Threads :
        /\ InGoverned(t)
        /\ pc[t] = "post"
        /\ try_number[t] >= 2
        /\ seen[t] = limit[obj[t]] - 2

\* C2: when the entry decay leaves api_counter >= limit - 1 the call ends
\* at once with CallRateLimitError: no transport invocation, no sleep, no
\* charge, and the error carries the current api_counter and limit.
C2_SaturatedRaisesAtOnce ==
    [][\A t \in Threads :
          (/\ pc[t] = "while"
           /\ pc'[t] # "while"
           /\ try_number[t] = 1
           /\ api_counter[obj[t]] >= limit[obj[t]] - 1)
          => /\ pc'[t] = "done"
             /\ outcome'[t] = [type |-> "CallRateLimitError",
                                counter |-> api_counter[obj[t]],
                                limit |-> limit[obj[t]]]
             /\ api_counter' = api_counter
             /\ now' = now
             /\ sends'[t] = 0
             /\ sleeps'[t] = 0
             /\ counter' = counter]_vars

\* C2 witness: a call refused at entry, with nothing sent and nothing slept
C2_Witness ==
    \E t \in Threads :
        /\ pc[t] = "done"
        /\ outcome[t].type = "CallRateLimitError"
        /\ try_number[t] = 1
        /\ outcome[t].counter >= outcome[t].limit - 1
        /\ sends[t] = 0

\* C3: on a fresh client, with successful calls issued back to back on a
\* frozen clock, a call is admitted exactly when the declared costs of the
\* calls before it sum to less than limit - 1; with limit 20 and cost 1
\* calls 1..19 succeed and call 20 raises CallRateLimitError.
C3_BurstAdmission ==
    \A t \in Threads :
        (InGoverned(t) /\ try_number[t] = 1 /\ burst[obj[t]] # NoBurst) =>
            /\ pc[t] \in {"charge", "func", "post"}
                   => burst[obj[t]].cost < limit[obj[t]] - 1
            /\ (pc[t] = "done" /\ outcome[t].type = "CallRateLimitError")
                   => burst[obj[t]].cost >= limit[obj[t]] - 1
            /\ (pc[t] = "done" /\ outcome[t].type = "result")
                   => burst[obj[t]].cost - MethodTable[method[t]][2] < limit[obj[t]] - 1
            /\ (limit[obj[t]] = 20 /\ burst[obj[t]].cost = burst[obj[t]].calls) =>
                   /\ (pc[t] = "done" /\ outcome[t].type = "result")
                          => burst[obj[t]].calls <= 19
                   /\ (pc[t] = "done" /\ outcome[t].type = "CallRateLimitError")
                          => burst[obj[t]].calls = 19

\* C3 witness: limit 20, nineteen calls of cost 1 served, the twentieth refused
C3_Witness ==
    \E t \in Threads :
        /\ pc[t] = "done"
        /\ outcome[t].type = "CallRateLimitError"
        /\ limit[obj[t]] = 20
        /\ burst[obj[t]] = [calls |-> 19, cost |-> 19]
        /\ now = 0

\* the methods defined without the callratelimiter decorator
Undecorated ==
    {"request_export_report", "add_standard_order", "edit_order", "cancel_order",
     "cancel_all_orders", "cancel_all_orders_after", "cancel_order_batch",
     "withdraw_funds"}

C5_OtherStatusNeverReturned ==
    \A t \in Threads :
        (InGoverned(t) /\ pc[t] = "done" /\ outcome[t].type = "result")
            => outcome[t].status_code \in {200, 201, 202}

\* C6 as claimed: a transport-level error during the send of a
\* rate-governed call is retried and never reaches the caller.
C6_TransportErrorRetried ==
    \A t \in Threads :
        (InGoverned(t) /\ pc[t] = "done") => outcome[t].type # "ConnectionError"

\* how many times the transport was invoked in the current attempt
SendsOfAttempt(t) == Cardinality({i \in 1..Len(steps[t]) : steps[t][i] = "send"})

\* C7: an accepted status with a non-empty error list makes the call raise
\* KrakenAPIError with those messages, after exactly one transport
\* invocation of that attempt, with no retry and no sleep.
C7_ExchangeErrorNotRetried ==
    [][\A t \in Threads, r \in Responses :
          (/\ r.status_code \in {200, 201, 202}
           /\ r.content = "json_error"
           /\ Query(t, r))
          => /\ pc'[t] = "done"
             /\ outcome'[t] = [type |-> "KrakenAPIError",
                                error |-> <<"EOrder:Invalid price">>]
             /\ SendsOfAttempt(t)' = 1
             /\ sends'[t] = sends[t] + 1
             /\ try_number'[t] = try_number[t]
             /\ sleeps'[t] = sleeps[t]
             /\ now' = now]_vars

\* C7 witness: a governed call ended with KrakenAPIError on its second
\* attempt, having slept once (for the first attempt's failure only)
C7_Witness ==
    \E t \in Threads :
        /\ InGoverned(t)
        /\ pc[t] = "done"
        /\ outcome[t].type = "KrakenAPIError"
        /\ try_number[t] = 2
        /\ sleeps[t] = 1
        /\ sends[t] = 2

\* the calls in progress on a private method of a client without both keys
PrivateWithoutKeys(t) ==
    /\ method[t] \in Methods
    /\ MethodTable[method[t]][3]
    /\ (key[obj[t]] = "" \/ secret[obj[t]] = "")

C9_RetryLoopSaturates ==
    [][\A t \in Threads :
          (pc[t] = "while" /\ pc'[t] = "charge" /\ try_number[t] >= 2)
              => api_counter[obj[t]] > seen[t]]_vars

\* C10 as claimed: one invocation of a rate-governed method performs at
\* most limit retries (admitted attempts after the first), whatever time
\* elapses between the attempts.
C10_AtMostLimitRetries ==
    \A t \in Threads :
        (InGoverned(t) /\ pc[t] \in {"charge", "func", "post"})
            => try_number[t] - 1 <= limit[obj[t]]

\* C11 as claimed: for every elapsed time dt >= 0 since the previous decay
\* step, whole seconds or not, the decay step takes exactly
\* min(api_counter, dt) off api_counter (compared here in ticks, so that
\* fractions of a second count).
C11_DecayExact ==
    [][\A t \in Threads :
          (pc[t] \in {"update", "reupdate"} /\ pc'[t] = "while"
             /\ now >= time_of_last_query[obj[t]])
          => LET c == obj[t]
                 owed == TicksPerSecond * api_counter[c]
                 dt == now - time_of_last_query[c]
             IN  TicksPerSecond * api_counter'[c] =
                    owed - (IF owed < dt THEN owed ELSE dt)]_vars

\* C12: api_counter is never negative, whatever calls, charges, decays and
\* retries came before.
C12_CounterNeverNegative == \A c \in Clients : api_counter[c] >= 0

\* C12 witness: a decay step is about to run with more whole seconds
\* elapsed than the counter holds
C12_Witness ==
    \E t \in Threads :
        /\ pc[t] \in {"update", "reupdate"}
        /\ api_counter[obj[t]] >= 1
        /\ (now - time_of_last_query[obj[t]]) \div TicksPerSecond > api_counter[obj[t]]

\* C20: a decay step that runs with no time elapsed since the decay step
\* before it leaves api_counter as that step left it.
C20_DecayIdempotent ==
    [][\A t \in Threads :
          (pc[t] \in {"update", "reupdate"} /\ pc'[t] = "while"
             /\ now = time_of_last_query[obj[t]])
          => api_counter'[obj[t]] = api_counter[obj[t]]]_vars

\* C20 witness: a decay step has run at this clock reading, has left a
\* counter above zero, and a second one is about to run
C20_Witness ==
    \E t \in Threads :
        /\ pc[t] = "update"
        /\ now > 0
        /\ time_of_last_query[obj[t]] = now
        /\ api_counter[obj[t]] >= 1

\* the attempts of the invocation that passed the admission check and were
\* charged
AdmittedAttempts(t) ==
    IF \/ pc[t] \in {"update", "while", "charge", "reupdate"}
       \/ (pc[t] = "done" /\ outcome[t].type = "CallRateLimitError")
    THEN try_number[t] - 1
    ELSE try_number[t]

\* the current attempt has been charged, and no later admission check has
\* run
AttemptCharged(t) ==
    \/ pc[t] \in {"func", "post", "except", "reupdate"}
    \/ (pc[t] = "done" /\ outcome[t].type # "CallRateLimitError")

\* C18: an invocation of a governed method has added to api_counter the
\* method's declared cost once per admitted attempt (so (k + 1) * cost after
\* k failures and a success), each charge made before the attempt's send;
\* and from the charge to the next decay step, whatever the attempt's
\* outcome, api_counter stands at the value the admission check read plus
\* the cost (2 for a cost-2 call admitted on an empty counter).
C18_ChargePerAttempt ==
    \A t \in Threads :
        (pc[t] # "idle" /\ InGoverned(t)) =>
            LET cost == MethodTable[method[t]][2] IN
            /\ charged[t] = AdmittedAttempts(t) * cost
            /\ sends[t] <= AdmittedAttempts(t)
            /\ pc[t] = "post" => sends[t] = AdmittedAttempts(t) - 1
            /\ AttemptCharged(t) => api_counter[obj[t]] = seen[t] + cost

\* C18 witness: a cost-2 call that failed once and then succeeded has
\* charged 4, and its second attempt, admitted on an empty counter, left 2
C18_Witness ==
    \E t \in Threads :
        /\ pc[t] = "done"
        /\ InGoverned(t)
        /\ MethodTable[method[t]][2] = 2
        /\ outcome[t].type = "result"
        /\ sends[t] = 2
        /\ charged[t] = 4
        /\ seen[t] = 0
        /\ api_counter[obj[t]] = 2

\* C19 as claimed: decay loses nothing to rounding. Since the last charge
\* (or the construction) left api_counter at c0, the decay steps have
\* covered a total time T; the claim gives api_counter = max(0, c0 - T)
\* however T was split among the steps. Stated here for the totals T of
\* whole seconds, where one decay step alone would be exact.
C19_DecayLinear ==
    \A c \in DOMAIN quiet :
        LET T == time_of_last_query[c] - quiet[c].since
            left == quiet[c].counter - T \div TicksPerSecond
        IN  (T >= 0 /\ T % TicksPerSecond = 0)
                => api_counter[c] = (IF left > 0 THEN left ELSE 0)

\* C14: with two clients in one process, a step taken while no call is in
\* progress on a client (so every step of every call made on the other
\* one) leaves that client's api_counter, time_of_last_query and counter
\* as they were.
C14_OtherClientUntouched ==
    [][\A d \in Clients :
          (\A t \in Threads : pc[t] # "idle" => obj[t] # d)
          => /\ api_counter'[d] = api_counter[d]
             /\ time_of_last_query'[d] = time_of_last_query[d]
             /\ counter'[d] = counter[d]]_vars

\* C14 witness: both clients have served requests, their rate state
\* differs, and a call on client 1 has just been charged
C14_Witness ==
    \E t \in Threads :
        /\ pc[t] = "func"
        /\ obj[t] = 1
        /\ InGoverned(t)
        /\ Cardinality(Clients) = 2
        /\ counter[1] >= 1
        /\ counter[2] >= 1
        /\ api_counter[1] # api_counter[2]
        /\ time_of_last_query[1] # time_of_last_query[2]

\* the names of the fields of a request's data, or of its headers
Names(pairs) == {p[1] : p \in pairs}

\* C13 as claimed: the nonce put into each private request of a client is
\* larger than the nonce of the client's private request before it, also
\* when no time has passed between the two.
C13_NonceStrictlyIncreasing ==
    [][\A t \in Threads :
          (pc[t] = "func" /\ pc'[t] = "post" /\ MethodTable[method[t]][3]
             /\ obj[t] \in DOMAIN issued)
          => \A p \in request'[t].data :
                 p[1] = "nonce" => p[2] > issued[obj[t]]]_vars

\* C15: a private request about to be handed to the transport has a nonce
\* field, has an otp field exactly when the client was constructed with a
\* 2FA method, and has the API-Key and API-Sign headers; a public request
\* has neither header.
C15_RequestFields ==
    \A t \in Threads :
        pc[t] = "post" =>
            IF MethodTable[method[t]][3]
            THEN /\ "nonce" \in Names(request[t].data)
                 /\ "otp" \in Names(request[t].data)
                        <=> authentification[obj[t]] # "None"
                 /\ {"API-Key", "API-Sign"} \subseteq Names(request[t].headers)
            ELSE Names(request[t].headers) \cap {"API-Key", "API-Sign"} = {}

\* C15 witness: a private request of a client with a 2FA method is about
\* to be handed to the transport, otp field included
C15_Witness ==
    \E t \in Threads :
        /\ pc[t] = "post"
        /\ MethodTable[method[t]][3]
        /\ authentification[obj[t]] = "2FA App"
        /\ Names(request[t].data) = {"nonce", "otp"}

\* a call is in progress on a private method of a client whose secret
\* b64decode rejects
UndecodableSecret(t) ==
    /\ pc[t] # "idle"
    /\ MethodTable[method[t]][3]
    /\ key[obj[t]] # ""
    /\ secret[obj[t]] # ""
    /\ B64Decode[secret[obj[t]]] = "binascii.Error"

TransientFailures(t) ==
    IF outcome[t].type = "result" /\ outcome[t].status_code \in {200, 201, 202}
    THEN sends[t] - 1
    ELSE sends[t]

\* C21 as claimed: an invocation of a governed method of cost c that ended
\* in a result or in CallRateLimitError has slept once after each of its k
\* transient failures, retry * c * k in total.
C21_SleepPerTransientFailure ==
    \A t \in Threads :
        (/\ pc[t] = "done"
         /\ InGoverned(t)
         /\ outcome[t].type \in {"result", "CallRateLimitError"})
        => /\ sleeps[t] = TransientFailures(t)
           /\ slept[t] = retry[obj[t]] * MethodTable[method[t]][2] * TransientFailures(t)

\* C22 as claimed: every attempt that was admitted and has ended, whatever
\* its outcome, has added one to the client's request counter.
C22_CounterPerAttempt ==
    [][\A t \in Threads :
          (pc[t] \in {"func", "post"} /\ pc'[t] \in {"done", "except"})
              => counter'[obj[t]] = counter[obj[t]] + 1]_vars

\* C23: an attempt answered with a status of {200, 201, 202} and a body
\* that is not JSON ends the call at once with the raw body as its result:
\* no exchange error, no retry, no sleep.
C23_RawBodyIsSuccess ==
    [][\A t \in Threads, r \in Responses :
          (/\ r.status_code \in {200, 201, 202}
           /\ r.content = "bytes"
           /\ Query(t, r))
          => /\ pc'[t] = "done"
             /\ outcome'[t] = [type |-> "result", result |-> "content",
                                status_code |-> r.status_code]
             /\ try_number'[t] = try_number[t]
             /\ sleeps'[t] = sleeps[t]
             /\ now' = now]_vars

\* C23 witness: a governed call has returned the raw body of a 201 response
C23_Witness ==
    \E t \in Threads :
        /\ InGoverned(t)
        /\ pc[t] = "done"
        /\ outcome[t] = [type |-> "result", result |-> "content", status_code |-> 201]
        /\ sleeps[t] = 0
        /\ sends[t] = 1

C26_CounterAtMostLimitPlusOne ==
    \A c \in Clients : api_counter[c] <= (limit[c] - 2) + 3

\* C29 as claimed: a decay step never increases api_counter, whatever the
\* clock reads, a clock set back since the previous decay step included.
C29_DecayNeverIncreases ==
    [][\A t \in Threads :
          (pc[t] \in {"update", "reupdate"} /\ pc'[t] = "while")
              => api_counter'[obj[t]] <= api_counter[obj[t]]]_vars

\* the methods C27 names
OrderMethods ==
    {"add_standard_order", "cancel_order", "cancel_all_orders",
     "cancel_all_orders_after", "cancel_order_batch", "withdraw_funds",
     "request_export_report"}

\* C27: no step of an invocation of one of these methods changes the
\* client's api_counter or time_of_last_query or sleeps, the invocation
\* sends at most once, and a 4xx/5xx answer ends it with HTTPError.
C27_OrderMethodsUngoverned ==
    [][\A t \in Threads :
          method[t] \in OrderMethods =>
              /\ api_counter'[obj[t]] = api_counter[obj[t]]
              /\ time_of_last_query'[obj[t]] = time_of_last_query[obj[t]]
              /\ sleeps'[t] = 0
              /\ sends'[t] <= 1
              /\ \A r \in Responses :
                    (r.status_code >= 400 /\ Query(t, r))
                        => /\ pc'[t] = "done"
                           /\ outcome'[t] = [type |-> "HTTPError",
                                              status_code |-> r.status_code]]_vars

\* C27 witness: withdraw_funds, called on a client whose counter stood at 1
\* a second after its last decay step, ended with HTTPError after one send
C27_Witness ==
    \E t \in Threads :
        /\ pc[t] = "done"
        /\ method[t] = "withdraw_funds"
        /\ outcome[t].type = "HTTPError"
        /\ sends[t] = 1
        /\ api_counter[obj[t]] = 1
        /\ now - time_of_last_query[obj[t]] >= TicksPerSecond

\* C28: the request of a retry of a governed private call is built anew:
\* its nonce is read from the clock at that attempt and, the clock having
\* advanced over the sleep, differs from the nonce of the attempt before;
\* and its signature is computed over the data that hold the new nonce.
C28_RetryRebuildsRequest ==
    [][\A t \in Threads :
          (/\ pc[t] = "func" /\ pc'[t] = "post"
           /\ MethodTable[method[t]][3]
           /\ try_number[t] >= 2
           /\ obj[t] \in DOMAIN issued)
          => /\ <<"nonce", (1000 * now) \div TicksPerSecond>> \in request'[t].data
             /\ \A p \in request'[t].data : p[1] = "nonce" => p[2] # issued[obj[t]]
             /\ \E h \in request'[t].headers :
                   /\ h[1] = "API-Sign"
                   /\ h[2].message = <<request'[t].urlpath, request'[t].data>>]_vars

\* C28 witness: the second attempt of a governed private call of a client
\* with a 2FA method is about to be sent, half a second after the first
C28_Witness ==
    \E t \in Threads :
        /\ pc[t] = "post"
        /\ InGoverned(t)
        /\ MethodTable[method[t]][3]
        /\ try_number[t] = 2
        /\ authentification[obj[t]] # "None"
        /\ slept[t] = 1
        /\ sends[t] = 1

\* C24 as claimed: a call that has passed the admission check is charged
\* while the counter still admits it: no other call on the client is
\* charged between the check and the charge.
C24_CheckAndChargeAtomic ==
    \A t \in Threads :
        (pc[t] = "charge" /\ InGoverned(t))
            => api_counter[obj[t]] < limit[obj[t]] - 1

\* C30: closing a client (close, or leaving a with-block) when its session
\* has already been released does nothing and raises no error: every
\* close that has run returned normally.
C30_CloseIsIdempotent ==
    \A t \in Threads :
        (pc[t] = "done" /\ method[t] \in CloseMethods) => outcome[t].type = "returned"
====
